---- MODULE Spec2Model ----
(***************************************************************************)
(* The user table of simple-crud-agent and the three copies of its         *)
(* persistence module: agent/tools/tools.py, src/database.py and           *)
(* tools/tools.py.  All three open the same file, users.db, so they share  *)
(* one table.  Every call opens a connection, runs its statements, commits *)
(* and closes; calls run one at a time.                                    *)
(***************************************************************************)
EXTENDS Integers, Sequences, FiniteSets, TLC

\* Cap on the AUTOINCREMENT counter: inserts are not explored past it.
MaxSeq == 10
\* The largest id a caller supplies.
MaxUserId == 2

\* The names and emails a caller supplies.
Names == {"Alice Smith", "Bob"}
Emails == {"alice@example.com", "new@example.com"}
\* The ids a caller supplies: 0 is an id no row ever has.
UserIds == 0..MaxUserId

\* Python's None for an omitted argument; Some(x) for a supplied one.
None == <<>>
Some(x) == <<x>>
OptNames == {None} \cup {Some(n) : n \in Names}
OptEmails == {None} \cup {Some(e) : e \in Emails}

VARIABLES
    tableExists,  \* the file users.db holds the table users
    users,        \* the rows of the table: records [id, name, email]
    seq,          \* sqlite_sequence's entry for users: the largest id ever given
    call,         \* the last call: module, function and arguments
    result,       \* how the last call ended: a returned value or a raised exception
    maxId         \* history: the largest id any row of the table has had so far

vars == <<tableExists, users, seq, call, result, maxId>>

\* The database file as the statements see it.
DB == [exists |-> tableExists, users |-> users, seq |-> seq]

\* A function returns v / ends in an exception of class exc.
Return(v) == [outcome |-> "return", value |-> v]
Raise(exc) == [outcome |-> "raise", exc |-> exc]

----
\* The SQL statements, under the schema
\*   users(id INTEGER PRIMARY KEY AUTOINCREMENT, name TEXT NOT NULL,
\*         email TEXT NOT NULL UNIQUE)

\* The email column declared without UNIQUE.
EmailTaken_NoUnique(rows, email, id) == FALSE

\* Whether a row other than row `id` holds `email` (the UNIQUE constraint).
EmailTaken(rows, email, id) == \E u \in rows : u.email = email /\ u.id # id

\* CREATE TABLE IF NOT EXISTS users (...)
SqlCreateTable(db) ==
    IF db.exists THEN db ELSE [exists |-> TRUE, users |-> {}, seq |-> 0]

\* INSERT OR REPLACE in place of INSERT: the row holding the email gives way.
SqlInsertOrReplace(db, name, email) ==
    IF ~db.exists THEN [exc |-> "OperationalError", db |-> db]
    ELSE LET id == db.seq + 1
         IN [exc |-> "",
             db |-> [db EXCEPT !.users = {u \in @ : u.email # email}
                                         \cup {[id |-> id, name |-> name, email |-> email]},
                               !.seq = id],
             lastrowid |-> id]

\* The id column declared without AUTOINCREMENT: the new id is one more than the
\* largest id in the table, so the id of a deleted last row is given again.
SqlInsert_NoAutoincrement(db, name, email) ==
    IF ~db.exists THEN [exc |-> "OperationalError", db |-> db]
    ELSE IF EmailTaken(db.users, email, 0) THEN [exc |-> "IntegrityError", db |-> db]
    ELSE LET id == IF db.users = {} THEN 1
                   ELSE 1 + (CHOOSE m \in {u.id : u \in db.users} :
                                 \A u \in db.users : u.id <= m)
         IN [exc |-> "",
             db |-> [db EXCEPT !.users = @ \cup {[id |-> id, name |-> name, email |-> email]},
                               !.seq = id],
             lastrowid |-> id]

\* INSERT INTO users (name, email) VALUES (?, ?)
SqlInsert(db, name, email) ==
    IF ~db.exists THEN [exc |-> "OperationalError", db |-> db]
    ELSE IF EmailTaken(db.users, email, 0) THEN [exc |-> "IntegrityError", db |-> db]
    ELSE LET id == db.seq + 1
         IN [exc |-> "",
             db |-> [db EXCEPT !.users = @ \cup {[id |-> id, name |-> name, email |-> email]},
                               !.seq = id],
             lastrowid |-> id]

\* SELECT id, name, email FROM users WHERE id = ?  followed by fetchone()
SqlSelectOne(db, id) ==
    IF ~db.exists THEN [exc |-> "OperationalError"]
    ELSE [exc |-> "", rows |-> {u \in db.users : u.id = id}]

\* UPDATE users SET name = ?, email = ? WHERE id = ?
SqlUpdate(db, name, email, id) ==
    IF ~db.exists THEN [exc |-> "OperationalError", db |-> db]
    ELSE IF \A u \in db.users : u.id # id THEN [exc |-> "", db |-> db, rowcount |-> 0]
    ELSE IF EmailTaken(db.users, email, id) THEN [exc |-> "IntegrityError", db |-> db]
    ELSE [exc |-> "",
          db |-> [db EXCEPT !.users = {IF u.id = id
                                         THEN [id |-> id, name |-> name, email |-> email]
                                         ELSE u : u \in @}],
          rowcount |-> 1]

\* DELETE FROM users WHERE id = ?
SqlDelete(db, id) ==
    IF ~db.exists THEN [exc |-> "OperationalError", db |-> db]
    ELSE [exc |-> "",
          db |-> [db EXCEPT !.users = {u \in @ : u.id # id}],
          rowcount |-> Cardinality({u \in db.users : u.id = id})]

\* SELECT COUNT(*) as count FROM users
SqlCount(db) == Cardinality(db.users)

\* DELETE FROM users: the rows go, sqlite_sequence keeps its entry.
SqlDeleteAll(db) == [db EXCEPT !.users = {}]

\* SELECT id, name, email FROM users: a scan of the table in rowid order.
RECURSIVE SqlSelectAll(_)
SqlSelectAll(rows) ==
    IF rows = {} THEN <<>>
    ELSE LET r == CHOOSE r \in rows : \A q \in rows : r.id <= q.id
         IN <<r>> \o SqlSelectAll(rows \ {r})

----
\* agent/tools/tools.py

\* The message of an exception, str(e).
ExcMessage(exc) ==
    IF exc = "OperationalError" THEN <<"no such table: users">> ELSE <<exc>>

create_table(db) == SqlCreateTable(db)

\* The except clauses of create_user.
create_user_except(exc, email) ==
    IF exc = "IntegrityError"
    THEN Return([status |-> "Error",
                 message |-> <<"A user with the email '", email, "' already exists.">>])
    ELSE Return([status |-> "Error", message |-> ExcMessage(exc)])

\* create_user without conn.commit(): the insert is rolled back when the connection closes.
create_user_NoCommit(db, name, email) ==
    LET r == SqlInsert(db, name, email)
    IN IF r.exc = ""
       THEN [db |-> db,
             ret |-> Return([status |-> "Success",
                             user |-> [id |-> r.lastrowid, name |-> name, email |-> email]])]
       ELSE [db |-> db, ret |-> create_user_except(r.exc, email)]

create_user(db, name, email) ==
    LET r == SqlInsert(db, name, email)
    IN IF r.exc = ""
       THEN [db |-> r.db,
             ret |-> Return([status |-> "Success",
                             user |-> [id |-> r.lastrowid, name |-> name, email |-> email]])]
       ELSE [db |-> db, ret |-> create_user_except(r.exc, email)]

read_user(db, user_id) ==
    LET r == SqlSelectOne(db, user_id)
    IN IF r.exc # "" THEN Raise(r.exc)
       ELSE IF r.rows # {}
       THEN Return([status |-> "Success", user |-> CHOOSE u \in r.rows : TRUE])
       ELSE Return([status |-> "Not Found",
                    message |-> <<"User with ID ", user_id, " was not found.">>])

\* The test written for empty strings: it lets None through.
no_fields_Empty(name, email) == name = Some("") /\ email = Some("")

\* if name is None and email is None
no_fields(name, email) == name = None /\ email = None

\* Use current values if new ones aren't provided.
new_name(name, current_data) == IF name # None THEN name[1] ELSE current_data.name
\* The omitted email written as an empty string, not taken from the current row.
new_email_Blank(email, current_data) == IF email # None THEN email[1] ELSE ""
new_email(email, current_data) == IF email # None THEN email[1] ELSE current_data.email

\* update_user without its except clauses, as in the other two copies.
update_user_except_Uncaught(exc, email) == Raise(exc)

\* The except clauses of update_user.
update_user_except(exc, email) ==
    IF exc = "IntegrityError"
    THEN Return([status |-> "Error",
                 message |-> <<"A user with the email '", email, "' already exists.">>])
    ELSE Return([status |-> "Error", message |-> ExcMessage(exc)])

update_user(db, user_id, name, email) ==
    IF no_fields(name, email)
    THEN [db |-> db,
          ret |-> Return([status |-> "Error",
                          message |-> <<"At least one field (name or email) must be provided for update.">>])]
    ELSE LET current_user == read_user(db, user_id)
         IN IF current_user.outcome = "raise" \/ current_user.value.status # "Success"
            THEN [db |-> db, ret |-> current_user]
            ELSE LET current_data == current_user.value.user
                     nname == new_name(name, current_data)
                     nemail == new_email(email, current_data)
                     r == SqlUpdate(db, nname, nemail, user_id)
                 IN IF r.exc # ""
                    THEN [db |-> db, ret |-> update_user_except(r.exc, nemail)]
                    ELSE IF r.rowcount > 0
                    THEN [db |-> r.db,
                          ret |-> Return([status |-> "Success",
                                          updated_user |-> [id |-> user_id, name |-> nname,
                                                            email |-> nemail]])]
                    ELSE [db |-> r.db,
                          ret |-> Return([status |-> "Not Found",
                                          message |-> <<"User with ID ", user_id,
                                                        " not found, so nothing was updated.">>])]

\* delete_user without conn.commit(): the delete is rolled back when the connection closes.
delete_user_NoCommit(db, user_id) ==
    LET r == SqlDelete(db, user_id)
    IN IF r.exc # "" THEN [db |-> db, ret |-> Raise(r.exc)]
       ELSE IF r.rowcount > 0
       THEN [db |-> db,
             ret |-> Return([status |-> "Success",
                             message |-> <<"User with ID ", user_id,
                                           " was deleted successfully.">>])]
       ELSE [db |-> db,
             ret |-> Return([status |-> "Not Found",
                             message |-> <<"User with ID ", user_id,
                                           " not found, so nothing was deleted.">>])]

delete_user(db, user_id) ==
    LET r == SqlDelete(db, user_id)
    IN IF r.exc # "" THEN [db |-> db, ret |-> Raise(r.exc)]
       ELSE IF r.rowcount > 0
       THEN [db |-> r.db,
             ret |-> Return([status |-> "Success",
                             message |-> <<"User with ID ", user_id,
                                           " was deleted successfully.">>])]
       ELSE [db |-> r.db,
             ret |-> Return([status |-> "Not Found",
                             message |-> <<"User with ID ", user_id,
                                           " not found, so nothing was deleted.">>])]

list_users(db) ==
    IF ~db.exists THEN Raise("OperationalError") ELSE Return(SqlSelectAll(db.users))

\* delete_all_users counting the rows after the DELETE.
delete_all_users_CountAfter(db) ==
    IF ~db.exists THEN [db |-> db, ret |-> Raise("OperationalError")]
    ELSE LET user_count == SqlCount(SqlDeleteAll(db))
         IN [db |-> SqlDeleteAll(db),
             ret |-> Return([status |-> "Success",
                             message |-> <<"All ", user_count,
                                           " users have been deleted from the database.">>,
                             deleted_count |-> user_count])]

delete_all_users(db) ==
    IF ~db.exists THEN [db |-> db, ret |-> Raise("OperationalError")]
    ELSE LET user_count == SqlCount(db)
         IN [db |-> SqlDeleteAll(db),
             ret |-> Return([status |-> "Success",
                             message |-> <<"All ", user_count,
                                           " users have been deleted from the database.">>,
                             deleted_count |-> user_count])]

sample_users ==
    << <<"Alice Smith", "alice@example.com">>,
       <<"Bob Johnson", "bob@example.com">>,
       <<"Charlie Lee", "charlie@example.com">>,
       <<"Dana White", "dana@example.com">>,
       <<"Eve Black", "eve@example.com">> >>

\* for name, email in sample_users: from the i-th pair on, with the users created so far.
RECURSIVE populate_loop(_, _, _)
populate_loop(db, i, created_users) ==
    IF i > Len(sample_users) THEN [db |-> db, created_users |-> created_users]
    ELSE LET r == create_user(db, sample_users[i][1], sample_users[i][2])
         IN populate_loop(r.db, i + 1,
                          IF r.ret.value.status = "Success"
                          THEN Append(created_users, r.ret.value.user)
                          ELSE created_users)

\* populate_database without the test for existing users.
populate_database_NoCheck(db) ==
    LET existing_users == list_users(db)
    IN IF existing_users.outcome = "raise" THEN [db |-> db, ret |-> existing_users]
       ELSE LET r == populate_loop(db, 1, <<>>)
            IN [db |-> r.db,
                ret |-> Return([status |-> "Success",
                                message |-> <<"Database populated with ",
                                              Len(r.created_users), " sample users.">>,
                                created_users |-> r.created_users,
                                created_count |-> Len(r.created_users)])]

populate_database(db) ==
    LET existing_users == list_users(db)
    IN IF existing_users.outcome = "raise" THEN [db |-> db, ret |-> existing_users]
       ELSE IF Len(existing_users.value) > 0
       THEN [db |-> db,
             ret |-> Return([status |-> "Skipped",
                             message |-> <<"Database already contains ",
                                           Len(existing_users.value),
                                           " users. No sample data added.">>,
                             existing_count |-> Len(existing_users.value)])]
       ELSE LET r == populate_loop(db, 1, <<>>)
            IN [db |-> r.db,
                ret |-> Return([status |-> "Success",
                                message |-> <<"Database populated with ",
                                              Len(r.created_users), " sample users.">>,
                                created_users |-> r.created_users,
                                created_count |-> Len(r.created_users)])]

\* agent/agent.py: _populate_db, run when the agent module is imported.
populate_db(db) == populate_database(db)

----
\* src/database.py: results are plain dictionaries, errors carry the key "error".

database_create_table(db) == SqlCreateTable(db)

database_create_user(db, name, email) ==
    LET r == SqlInsert(db, name, email)
    IN IF r.exc = ""
       THEN [db |-> r.db,
             ret |-> Return([id |-> r.lastrowid, name |-> name, email |-> email])]
       ELSE IF r.exc = "IntegrityError"
       THEN [db |-> db,
             ret |-> Return([error |-> <<"User with email ", email, " already exists.">>])]
       ELSE [db |-> db, ret |-> Raise(r.exc)]

database_read_user(db, user_id) ==
    LET r == SqlSelectOne(db, user_id)
    IN IF r.exc # "" THEN Raise(r.exc)
       ELSE IF r.rows # {} THEN Return(CHOOSE u \in r.rows : TRUE)
       ELSE Return([error |-> <<"User with ID ", user_id, " not found.">>])

database_update_user(db, user_id, name, email) ==
    LET r == SqlUpdate(db, name, email, user_id)
    IN IF r.exc # "" THEN [db |-> db, ret |-> Raise(r.exc)]
       ELSE IF r.rowcount > 0
       THEN [db |-> r.db, ret |-> Return([id |-> user_id, name |-> name, email |-> email])]
       ELSE [db |-> r.db,
             ret |-> Return([error |-> <<"User with ID ", user_id, " not found.">>])]

database_delete_user(db, user_id) ==
    LET r == SqlDelete(db, user_id)
    IN IF r.exc # "" THEN [db |-> db, ret |-> Raise(r.exc)]
       ELSE IF r.rowcount > 0
       THEN [db |-> r.db,
             ret |-> Return([message |-> <<"User with ID ", user_id,
                                           " deleted successfully.">>])]
       ELSE [db |-> r.db,
             ret |-> Return([error |-> <<"User with ID ", user_id, " not found.">>])]

database_list_users(db) ==
    IF ~db.exists THEN Raise("OperationalError") ELSE Return(SqlSelectAll(db.users))

\* src/agent.py: _populate_db, run when that agent module is imported.
RECURSIVE database_populate_loop(_, _)
database_populate_loop(db, i) ==
    IF i > Len(sample_users) THEN db
    ELSE database_populate_loop(
             database_create_user(db, sample_users[i][1], sample_users[i][2]).db, i + 1)

database_populate_db(db) ==
    LET existing == database_list_users(db)
    IN IF existing.outcome = "raise" THEN [db |-> db, ret |-> existing]
       ELSE IF Len(existing.value) = 0
       THEN [db |-> database_populate_loop(db, 1), ret |-> Return(None)]
       ELSE [db |-> db, ret |-> Return(None)]

----
\* tools/tools.py: this copy never creates the table; create_user, read_user,
\* list_users and delete_user are the same text as in agent/tools/tools.py.

tools_create_user(db, name, email) == create_user(db, name, email)

tools_read_user(db, user_id) == read_user(db, user_id)

tools_list_users(db) == list_users(db)

tools_update_user(db, user_id, name, email) ==
    LET r == SqlUpdate(db, name, email, user_id)
    IN IF r.exc # "" THEN [db |-> db, ret |-> Raise(r.exc)]
       ELSE IF r.rowcount > 0
       THEN [db |-> r.db,
             ret |-> Return([status |-> "Success",
                             updated_user |-> [id |-> user_id, name |-> name,
                                               email |-> email]])]
       ELSE [db |-> r.db,
             ret |-> Return([status |-> "Not Found",
                             message |-> <<"User with ID ", user_id,
                                           " not found, so nothing was updated.">>])]

tools_delete_user(db, user_id) == delete_user(db, user_id)

----
\* The calls.  Importing agent/tools/tools.py or src/database.py runs create_table,
\* so their functions are only ever called on a file that holds the table.

Init ==
    /\ tableExists = FALSE
    /\ users = {}
    /\ seq = 0
    /\ call = [module |-> "", op |-> "", user_id |-> None, name |-> None, email |-> None]
    /\ result = Return(None)
    /\ maxId = 0

Called(module, op, user_id, name, email) ==
    call' = [module |-> module, op |-> op, user_id |-> user_id, name |-> name,
             email |-> email]

LargestOf(S) == CHOOSE m \in S : \A x \in S : x <= m

\* The call leaves the file as `db` and ends as `ret`.
Ends(db, ret) ==
    /\ tableExists' = db.exists
    /\ users' = db.users
    /\ seq' = db.seq
    /\ result' = ret
    /\ maxId' = LargestOf({maxId} \cup {u.id : u \in db.users})

\* An insert is explored while the counter stays within MaxSeq.
CanInsert(n) == seq + n <= MaxSeq

do_create_table ==
    /\ Called("agent", "create_table", None, None, None)
    /\ Ends(create_table(DB), Return(None))

do_create_user ==
    \E name \in Names, email \in Emails :
        /\ tableExists
        /\ CanInsert(1)
        /\ Called("agent", "create_user", None, Some(name), Some(email))
        /\ LET r == create_user(DB, name, email) IN Ends(r.db, r.ret)

do_read_user ==
    \E user_id \in UserIds :
        /\ tableExists
        /\ Called("agent", "read_user", Some(user_id), None, None)
        /\ Ends(DB, read_user(DB, user_id))

do_update_user ==
    \E user_id \in UserIds, name \in OptNames, email \in OptEmails :
        /\ tableExists
        /\ Called("agent", "update_user", Some(user_id), name, email)
        /\ LET r == update_user(DB, user_id, name, email) IN Ends(r.db, r.ret)

do_delete_user ==
    \E user_id \in UserIds :
        /\ tableExists
        /\ Called("agent", "delete_user", Some(user_id), None, None)
        /\ LET r == delete_user(DB, user_id) IN Ends(r.db, r.ret)

do_list_users ==
    /\ tableExists
    /\ Called("agent", "list_users", None, None, None)
    /\ Ends(DB, list_users(DB))

do_delete_all_users ==
    /\ tableExists
    /\ Called("agent", "delete_all_users", None, None, None)
    /\ LET r == delete_all_users(DB) IN Ends(r.db, r.ret)

do_populate_database ==
    /\ tableExists
    /\ users = {} => CanInsert(Len(sample_users))
    /\ Called("agent", "populate_database", None, None, None)
    /\ LET r == populate_database(DB) IN Ends(r.db, r.ret)

do_populate_db ==
    /\ tableExists
    /\ users = {} => CanInsert(Len(sample_users))
    /\ Called("agent", "_populate_db", None, None, None)
    /\ LET r == populate_db(DB) IN Ends(r.db, Return(None))

do_database_create_table ==
    /\ Called("database", "create_table", None, None, None)
    /\ Ends(database_create_table(DB), Return(None))

do_database_create_user ==
    \E name \in Names, email \in Emails :
        /\ tableExists
        /\ CanInsert(1)
        /\ Called("database", "create_user", None, Some(name), Some(email))
        /\ LET r == database_create_user(DB, name, email) IN Ends(r.db, r.ret)

do_database_read_user ==
    \E user_id \in UserIds :
        /\ tableExists
        /\ Called("database", "read_user", Some(user_id), None, None)
        /\ Ends(DB, database_read_user(DB, user_id))

do_database_update_user ==
    \E user_id \in UserIds, name \in Names, email \in Emails :
        /\ tableExists
        /\ Called("database", "update_user", Some(user_id), Some(name), Some(email))
        /\ LET r == database_update_user(DB, user_id, name, email) IN Ends(r.db, r.ret)

do_database_delete_user ==
    \E user_id \in UserIds :
        /\ tableExists
        /\ Called("database", "delete_user", Some(user_id), None, None)
        /\ LET r == database_delete_user(DB, user_id) IN Ends(r.db, r.ret)

do_database_list_users ==
    /\ tableExists
    /\ Called("database", "list_users", None, None, None)
    /\ Ends(DB, database_list_users(DB))

do_database_populate_db ==
    /\ tableExists
    /\ users = {} => CanInsert(Len(sample_users))
    /\ Called("database", "_populate_db", None, None, None)
    /\ LET r == database_populate_db(DB) IN Ends(r.db, r.ret)

do_tools_create_user ==
    \E name \in Names, email \in Emails :
        /\ CanInsert(1)
        /\ Called("tools", "create_user", None, Some(name), Some(email))
        /\ LET r == tools_create_user(DB, name, email) IN Ends(r.db, r.ret)

do_tools_read_user ==
    \E user_id \in UserIds :
        /\ Called("tools", "read_user", Some(user_id), None, None)
        /\ Ends(DB, tools_read_user(DB, user_id))

do_tools_list_users ==
    /\ Called("tools", "list_users", None, None, None)
    /\ Ends(DB, tools_list_users(DB))

do_tools_update_user ==
    \E user_id \in UserIds, name \in Names, email \in Emails :
        /\ Called("tools", "update_user", Some(user_id), Some(name), Some(email))
        /\ LET r == tools_update_user(DB, user_id, name, email) IN Ends(r.db, r.ret)

do_tools_delete_user ==
    \E user_id \in UserIds :
        /\ Called("tools", "delete_user", Some(user_id), None, None)
        /\ LET r == tools_delete_user(DB, user_id) IN Ends(r.db, r.ret)

Next ==
    \/ do_create_table
    \/ do_create_user
    \/ do_read_user
    \/ do_update_user
    \/ do_delete_user
    \/ do_list_users
    \/ do_delete_all_users
    \/ do_populate_database
    \/ do_populate_db
    \/ do_database_create_table
    \/ do_database_create_user
    \/ do_database_read_user
    \/ do_database_update_user
    \/ do_database_delete_user
    \/ do_database_list_users
    \/ do_database_populate_db
    \/ do_tools_create_user
    \/ do_tools_read_user
    \/ do_tools_list_users
    \/ do_tools_update_user
    \/ do_tools_delete_user

Spec == Init /\ [][Next]_vars

----
\* The properties.

\* The step is a call of `op` of agent/tools/tools.py.
AgentStep(op) == call'.module = "agent" /\ call'.op = op
\* The last call was `op` of agent/tools/tools.py.
AgentCall(op) == call.module = "agent" /\ call.op = op
\* The functions every copy of the persistence module offers.
PersistenceOps == {"create_user", "read_user", "update_user", "delete_user", "list_users"}
RowIds(rows) == {u.id : u \in rows}
RowOf(rows, id) == CHOOSE u \in rows : u.id = id
IsDuplicateEmail(res, email) ==
    /\ res.outcome = "return"
    /\ res.value.status = "Error"
    /\ res.value.message = <<"A user with the email '", email, "' already exists.">>
IsNotFound(res) == res.outcome = "return" /\ res.value.status = "Not Found"
IsSuccess(res) == res.outcome = "return" /\ res.value.status = "Success"

\* C1: in every reachable state no two rows of the table hold the same email
\* (and no two the same id).
C1_UniqueEmail ==
    \A u, v \in users : (u.email = v.email \/ u.id = v.id) => u = v

\* C1 witness: update_user has just been refused an email that another row holds.
C1_Witness ==
    /\ AgentCall("update_user")
    /\ call.email # None
    /\ IsDuplicateEmail(result, call.email[1])
    /\ \E u, v \in users : u.id = call.user_id[1] /\ v.id # u.id /\ v.email = call.email[1]

\* C2: with the table in place, every persistence operation of every copy ends by
\* returning a value, never in an exception.
C2_NeverRaises ==
    (tableExists /\ call.op \in PersistenceOps) => result.outcome = "return"

\* C3: create_user on a fresh table succeeds with the given name and email and a
\* generated id, and read_user of that id right afterwards returns that user.
C3_CreateThenRead ==
    [][ /\ (tableExists /\ users = {} /\ seq = 0 /\ AgentStep("create_user")) =>
            /\ IsSuccess(result')
            /\ result'.value.user.name = call'.name[1]
            /\ result'.value.user.email = call'.email[1]
            /\ result'.value.user.id \in Nat \ {0}
            /\ read_user(DB', result'.value.user.id)
                 = Return([status |-> "Success", user |-> result'.value.user])
        /\ (AgentCall("create_user") /\ IsSuccess(result) /\ seq = 1
              /\ AgentStep("read_user") /\ call'.user_id = Some(result.value.user.id)) =>
            result' = Return([status |-> "Success", user |-> result.value.user])
      ]_vars

\* C3 witness: read_user has returned the only row, the one the first insert made.
C3_Witness ==
    /\ AgentCall("read_user")
    /\ seq = 1
    /\ IsSuccess(result)
    /\ users = {result.value.user}
    /\ result.value.user.id = call.user_id[1]

\* C4: create_user with an email some row holds returns the duplicate-email error
\* and changes nothing: one row holds the email, list_users returns what it did.
C4_DuplicateCreate ==
    [][ (AgentStep("create_user") /\ \E u \in users : u.email = call'.email[1]) =>
            /\ IsDuplicateEmail(result', call'.email[1])
            /\ users' = users /\ seq' = seq
            /\ Cardinality({u \in users' : u.email = call'.email[1]}) = 1
            /\ list_users(DB') = list_users(DB)
      ]_vars

\* C4 witness: create_user was refused, and the one row with the email has another name.
C4_Witness ==
    /\ AgentCall("create_user")
    /\ IsDuplicateEmail(result, call.email[1])
    /\ \E u \in users : u.email = call.email[1] /\ u.name # call.name[1]
    /\ Cardinality({u \in users : u.email = call.email[1]}) = 1

\* The step is update_user of agent/tools/tools.py on an existing id with exactly
\* one of name and email supplied.
PartialUpdateStep ==
    /\ AgentStep("update_user")
    /\ call'.user_id[1] \in RowIds(users)
    /\ (call'.name = None) # (call'.email = None)

\* What C5 says of such a step: the supplied field is written, the other field and
\* the id are kept, every other row is as it was, and updated_user is the stored row.
PartialUpdateEffect ==
    LET id == call'.user_id[1]
        old == RowOf(users, id)
    IN /\ id \in RowIds(users')
       /\ LET new == RowOf(users', id)
          IN /\ new.id = old.id
             /\ call'.name # None => (new.name = call'.name[1] /\ new.email = old.email)
             /\ call'.email # None => (new.email = call'.email[1] /\ new.name = old.name)
             /\ IsSuccess(result')
             /\ result'.value.updated_user = new
       /\ {u \in users' : u.id # id} = {u \in users : u.id # id}
       /\ Cardinality(users') = Cardinality(users)

\* C5 as stated: every update of an existing user with exactly one field supplied
\* writes that field and keeps the rest.
C5_Original == [][PartialUpdateStep => PartialUpdateEffect]_vars

\* C5 amended: the same, for a call whose supplied email (if any) is not the email
\* of a different user.
C5_PartialUpdate ==
    [][ (/\ PartialUpdateStep
         /\ call'.email # None =>
              ~\E v \in users : v.id # call'.user_id[1] /\ v.email = call'.email[1])
        => PartialUpdateEffect ]_vars

\* C5 witness: an update of the email alone has left the row with the new email
\* and with a name no caller supplies.
C5_Witness ==
    /\ AgentCall("update_user")
    /\ call.name = None /\ call.email # None
    /\ IsSuccess(result)
    /\ result.value.updated_user \in users
    /\ result.value.updated_user.email = call.email[1]
    /\ result.value.updated_user.name \notin Names

\* C6: update_user with neither name nor email returns the invalid-argument error
\* for every id and leaves the table as it was.
C6_NoFields ==
    [][ (AgentStep("update_user") /\ call'.name = None /\ call'.email = None) =>
            /\ result' = Return([status |-> "Error",
                                 message |-> <<"At least one field (name or email) must be provided for update.">>])
            /\ users' = users /\ seq' = seq /\ tableExists' = tableExists
      ]_vars

\* C6 witness: the error was returned for the id of a stored row.
C6_Witness ==
    /\ AgentCall("update_user")
    /\ call.name = None /\ call.email = None
    /\ call.user_id[1] \in RowIds(users)
    /\ result.outcome = "return" /\ result.value.status = "Error"

\* C7: update_user with an email, on an existing id, returns the duplicate-email
\* error exactly when a different row holds the email, and then changes nothing;
\* with the row's own email it succeeds; with a field supplied and no row of that
\* id it returns Not Found and changes nothing.
C7_UpdateEmail ==
    [][ /\ (AgentStep("update_user") /\ call'.email # None
              /\ call'.user_id[1] \in RowIds(users)) =>
            LET id == call'.user_id[1]
                e == call'.email[1]
                taken == \E v \in users : v.id # id /\ v.email = e
            IN /\ IsDuplicateEmail(result', e) <=> taken
               /\ taken => (users' = users /\ seq' = seq)
               /\ RowOf(users, id).email = e => IsSuccess(result')
        /\ (AgentStep("update_user") /\ (call'.name # None \/ call'.email # None)
              /\ call'.user_id[1] \notin RowIds(users)) =>
            /\ IsNotFound(result')
            /\ users' = users /\ seq' = seq
      ]_vars

\* C7 witness: an update of name and email was refused for the email, and the row
\* still has a name other than the one supplied.
C7_Witness ==
    /\ AgentCall("update_user")
    /\ call.name # None /\ call.email # None
    /\ IsDuplicateEmail(result, call.email[1])
    /\ \E u \in users : u.id = call.user_id[1] /\ u.name # call.name[1]
                          /\ u.email # call.email[1]

\* C8: delete_user on an existing id returns Success, removes that row and no
\* other, and read_user of the id then returns Not Found; on an id with no row it
\* returns Not Found and changes nothing.
C8_Delete ==
    [][ /\ (AgentStep("delete_user") /\ call'.user_id[1] \in RowIds(users)) =>
            /\ IsSuccess(result')
            /\ users' = {u \in users : u.id # call'.user_id[1]}
            /\ Cardinality(users') = Cardinality(users) - 1
            /\ IsNotFound(read_user(DB', call'.user_id[1]))
        /\ (AgentStep("delete_user") /\ call'.user_id[1] \notin RowIds(users)) =>
            /\ IsNotFound(result')
            /\ users' = users /\ seq' = seq
        /\ (AgentCall("delete_user") /\ IsSuccess(result)
              /\ AgentStep("read_user") /\ call'.user_id = call.user_id) =>
            IsNotFound(result')
      ]_vars

\* C8 witness: a row was deleted and other rows remain.
C8_Witness ==
    /\ AgentCall("delete_user")
    /\ IsSuccess(result)
    /\ call.user_id[1] \notin RowIds(users)
    /\ users # {}

\* C9: delete_all_users reports the number of rows the table held and leaves
\* list_users empty; called again at once it reports 0 and the table stays empty.
C9_DeleteAll ==
    [][ /\ AgentStep("delete_all_users") =>
            /\ IsSuccess(result')
            /\ result'.value.deleted_count = Cardinality(users)
            /\ users' = {}
            /\ list_users(DB') = Return(<<>>)
        /\ (AgentCall("delete_all_users") /\ AgentStep("delete_all_users")) =>
            (result'.value.deleted_count = 0 /\ users' = {})
      ]_vars

\* C9 witness: delete_all_users has removed several rows.
C9_Witness ==
    /\ AgentCall("delete_all_users")
    /\ result.value.deleted_count >= 2
    /\ users = {}

\* The five sample users, as (name, email).
FiveSamples ==
    { <<"Alice Smith", "alice@example.com">>, <<"Bob Johnson", "bob@example.com">>,
      <<"Charlie Lee", "charlie@example.com">>, <<"Dana White", "dana@example.com">>,
      <<"Eve Black", "eve@example.com">> }

\* C10: populate_database on an empty table inserts the five sample users and
\* reports Success with created_count 5; on a non-empty table it changes nothing
\* and reports Skipped with the number of rows.  _populate_db does the same to
\* the table.
C10_Populate ==
    [][ /\ (AgentStep("populate_database") /\ users = {}) =>
            /\ result'.outcome = "return" /\ result'.value.status = "Success"
            /\ result'.value.created_count = 5
            /\ Cardinality(users') = 5
            /\ {<<u.name, u.email>> : u \in users'} = FiveSamples
            /\ {result'.value.created_users[i] : i \in 1..Len(result'.value.created_users)}
                 = users'
        /\ (AgentStep("populate_database") /\ users # {}) =>
            /\ users' = users /\ seq' = seq
            /\ result'.outcome = "return" /\ result'.value.status = "Skipped"
            /\ result'.value.existing_count = Cardinality(users)
        /\ AgentStep("_populate_db") =>
            IF users = {}
            THEN Cardinality(users') = 5 /\ {<<u.name, u.email>> : u \in users'} = FiveSamples
            ELSE users' = users /\ seq' = seq
      ]_vars

\* C10 witness: the table was emptied after earlier inserts and populated again.
C10_Witness ==
    /\ AgentCall("populate_database")
    /\ result.value.status = "Success"
    /\ result.value.created_count = 5
    /\ Cardinality(users) = 5
    /\ seq > 5

\* C11: ids are unique and strictly increase: a successful create_user returns an
\* id greater than every id any row has had, removed rows included, and stores
\* the row under it; the first create on a fresh table returns 1; update_user
\* leaves the ids of the table as they were; no two rows share an id.
C11_IdsIncrease ==
    [][ /\ (AgentStep("create_user") /\ IsSuccess(result')) =>
            /\ result'.value.user.id > maxId
            /\ \A u \in users : result'.value.user.id > u.id
            /\ result'.value.user \in users'
            /\ {u \in users' : u.id # result'.value.user.id} = users
        /\ (AgentStep("create_user") /\ tableExists /\ users = {} /\ seq = 0) =>
            (IsSuccess(result') /\ result'.value.user.id = 1)
        /\ AgentStep("update_user") =>
            /\ RowIds(users') = RowIds(users)
            /\ Cardinality(users') = Cardinality(users)
            /\ IsSuccess(result') => result'.value.updated_user.id = call'.user_id[1]
        /\ \A u, v \in users' : u.id = v.id => u = v
        /\ maxId' >= maxId
      ]_vars

\* C11 witness: create_user has returned an id above 1 for the only row of the
\* table, after the rows with smaller ids were removed.
C11_Witness ==
    /\ AgentCall("create_user")
    /\ IsSuccess(result)
    /\ users = {result.value.user}
    /\ result.value.user.id > 1
    /\ result.value.user.id = maxId

====
